---- MODULE Spec2Model ----
(***************************************************************************)
(* The blog application of main.py as a state machine: three tables        *)
(* (users, blog_posts, comments), one login session per client, and one    *)
(* action per route handler.  Every request is handled to completion; the  *)
(* request and its response are recorded in `last`.                        *)
(***************************************************************************)
EXTENDS Integers, Sequences, FiniteSets, TLC

\* ------------------------------------------------------------------ bounds
\* Largest primary key each table may hand out in a run.
MaxUserId == 2
MaxPostId == 2
MaxCommentId == 1

\* Browsers talking to the server, each with its own session cookie.
Clients == {"c1"}

\* Form inputs.
Names == {"Alice"}
Emails == {"alice@x.com", "bob@x.com"}
Passwords == {"pw123", ""}
Titles == {"Hello", "World", ""}
Subtitles == {"sub"}
Bodies == {"body"}
ImgUrls == {"http://img"}
CommentTexts == {"Nice", ""}
Salts == {"s8"}
Methods == {"GET", "POST"}
\* The calendar days date.today() may return during a run.
Days == {[year |-> 2024, month |-> 4, day |-> 5]}

\* ------------------------------------------------------------------ constants
\* current_user.id != 1
ADMIN_ID == 1
\* The session of a client that is not logged in (flask_login's anonymous user).
Anonymous == 0
\* A NULL foreign key.
NULL == 0

VARIABLES users, blog_posts, comments, session, last

vars == <<users, blog_posts, comments, session, last>>

\* ------------------------------------------------------------------ helpers
SetMax(S) == CHOOSE x \in S : \A y \in S : y <= x

\* INTEGER PRIMARY KEY without AUTOINCREMENT: the next rowid is max(rowid) + 1.
NextId(table) == IF table = {} THEN 1 ELSE SetMax({r.id : r \in table}) + 1

UserIds == {u.id : u \in users}
PostIds == {p.id : p \in blog_posts}
CommentIds == {c.id : c \in comments}
UrlPostIds == 1 .. MaxPostId

MonthName == [m \in 1 .. 12 |->
    <<"January", "February", "March", "April", "May", "June", "July",
      "August", "September", "October", "November", "December">>[m]]

\* date.strftime("%B %d, %Y")
strftime(d) == <<MonthName[d.month], <<d.day \div 10, d.day % 10>>, d.year>>

\* werkzeug.security.generate_password_hash(password, "pbkdf2:sha256", 8)
generate_password_hash(password, salt) ==
    [method |-> "pbkdf2:sha256", salt |-> salt, hash |-> <<salt, password>>]

check_password_hash_always(pwhash, password) == TRUE

\* werkzeug.security.check_password_hash(pwhash, password)
check_password_hash(pwhash, password) == pwhash.hash = <<pwhash.salt, password>>

\* ------------------------------------------------------------------ forms
EmptyForm == [kind |-> "none"]
RegisterForms ==
    [kind : {"register"}, name : Names, email : Emails, password : Passwords]
LoginForms == [kind : {"login"}, email : Emails, password : Passwords]
CreatePostForms ==
    [kind : {"post"}, title : Titles, subtitle : Subtitles, body : Bodies, img_url : ImgUrls]
CommentForms == [kind : {"comment"}, comment : CommentTexts]

\* Structural validation of the forms module: required fields are non-empty.
validate(form) ==
    CASE form.kind = "register" -> form.email # "" /\ form.password # "" /\ form.name # ""
      [] form.kind = "login" -> form.email # "" /\ form.password # ""
      [] form.kind = "post" -> form.title # "" /\ form.subtitle # "" /\ form.body # "" /\ form.img_url # ""
      [] form.kind = "comment" -> form.comment # ""
      [] OTHER -> FALSE

\* FlaskForm.validate_on_submit(): is_submitted() and validate()
validate_on_submit(method, form) ==
    method \in {"POST", "PUT", "PATCH", "DELETE"} /\ validate(form)

\* ------------------------------------------------------------------ session
is_authenticated_always(c) == TRUE

\* current_user.is_authenticated
is_authenticated(c) == session[c] # Anonymous

\* load_user: User.query.get(user_id), the row flask_login binds to current_user
load_user(user_id) == CHOOSE u \in users : u.id = user_id

admin_only_any_user(c) ==
    IF session[c] = Anonymous THEN "AttributeError" ELSE "call"

\* The admin_only decorator.  The anonymous user object has no id attribute, so
\* reading current_user.id raises AttributeError for a client not logged in.
admin_only(c) ==
    IF session[c] = Anonymous THEN "AttributeError"
    ELSE IF load_user(session[c]).id # ADMIN_ID THEN "abort403"
    ELSE "call"

\* ------------------------------------------------------------------ responses
\* What the server answered last, to whom and from which view function.
Response(c, route, method, status, view, flash) ==
    [client |-> c, route |-> route, method |-> method, status |-> status,
     view |-> view, flash |-> flash]

render_template(c, route, method, view, flash) ==
    Response(c, route, method, 200, view, flash)

redirect(c, route, method, endpoint, flash) ==
    Response(c, route, method, 302, endpoint, flash)

abort(c, route, method, status) == Response(c, route, method, status, "", "")

\* An exception that no handler catches: the generic server error.
ServerError(c, route, method, exception) ==
    Response(c, route, method, 500, "", exception)

\* A method the route does not list: werkzeug answers 405 before the view runs.
MethodNotAllowed(c, route, method) ==
    /\ last' = abort(c, route, method, 405)
    /\ UNCHANGED <<users, blog_posts, comments, session>>

Init ==
    /\ users = {}
    /\ blog_posts = {}
    /\ comments = {}
    /\ session = [c \in Clients |-> Anonymous]
    /\ last = Response(CHOOSE c \in Clients : TRUE, "", "", 0, "", "")

\* ------------------------------------------------------------------ tables
filter_by_email_none(email) == {}

\* User.query.filter_by(email=...).first(): the matching row, as a set of at most one
filter_by_email(email) == {u \in users : u.email = email}

\* BlogPost.query.get(post_id): the row, as a set of at most one
get_post(post_id) == {p \in blog_posts : p.id = post_id}

\* users.email is declared unique=True: an INSERT of a second row with the same
\* email is rejected by the database (IntegrityError).
user_insert_ok(row) == \A u \in users : u.email # row.email /\ u.id # row.id

post_insert_ok_no_unique(row) == \A p \in blog_posts : p.id # row.id

\* blog_posts.title is declared unique=True, nullable=False.
post_insert_ok(row) == \A p \in blog_posts : p.title # row.title /\ p.id # row.id

\* blog_posts.title stays unique under UPDATE as well.
post_update_ok(row) == \A p \in blog_posts : p.id # row.id => p.title # row.title

delete_row_cascade(post) ==
    /\ blog_posts' = blog_posts \ {post}
    /\ comments' = {c \in comments : c.post_id # post.id}

\* db.session.delete(post); db.session.commit().  BlogPost.comments is a
\* relationship without a delete cascade: the unit of work sets the post_id of
\* the post's comments to NULL and deletes only the blog_posts row.
delete_row(post) ==
    /\ blog_posts' = blog_posts \ {post}
    /\ comments' = {IF c.post_id = post.id THEN [c EXCEPT !.post_id = NULL] ELSE c
                    : c \in comments}

\* ------------------------------------------------------------------ routes
\* @app.route('/')
get_all_posts(c, method) ==
    IF method # "GET" THEN MethodNotAllowed(c, "get_all_posts", method)
    ELSE
    /\ last' = render_template(c, "get_all_posts", method, "index.html", "")
    /\ UNCHANGED <<users, blog_posts, comments, session>>

\* @app.route('/register', methods=["GET", "POST"])
register(c, method, form, salt) ==
    IF method = "POST" THEN
        IF filter_by_email(form.email) # {} THEN
            /\ last' = redirect(c, "register", method, "login", "email already exists")
            /\ UNCHANGED <<users, blog_posts, comments, session>>
        ELSE
            LET new_user == [id |-> NextId(users), name |-> form.name, email |-> form.email,
                             password |-> generate_password_hash(form.password, salt)]
            IN  IF user_insert_ok(new_user) THEN
                       /\ new_user.id <= MaxUserId
                       /\ users' = users \cup {new_user}
                       /\ session' = [session EXCEPT ![c] = new_user.id]
                       /\ last' = redirect(c, "register", method, "get_all_posts", "")
                       /\ UNCHANGED <<blog_posts, comments>>
                   ELSE
                       /\ last' = ServerError(c, "register", method, "IntegrityError")
                       /\ UNCHANGED <<users, blog_posts, comments, session>>
    ELSE
        /\ last' = render_template(c, "register", method, "register.html", "")
        /\ UNCHANGED <<users, blog_posts, comments, session>>

\* @app.route('/login', methods=["GET", "POST"])
login(c, method, form) ==
    LET database_user == filter_by_email(form.email) IN
    IF method = "POST" /\ database_user # {}
       /\ \E u \in database_user : check_password_hash(u.password, form.password)
    THEN
        /\ session' = [session EXCEPT ![c] = (CHOOSE u \in database_user : TRUE).id]
        /\ last' = redirect(c, "login", method, "get_all_posts", "")
        /\ UNCHANGED <<users, blog_posts, comments>>
    ELSE
        /\ last' = render_template(c, "login", method, "login.html",
                        IF method # "POST" THEN ""
                        ELSE IF database_user # {} THEN "invalid password"
                        ELSE "email does not exist")
        /\ UNCHANGED <<users, blog_posts, comments, session>>

\* @app.route('/logout')
logout(c, method) ==
    IF method # "GET" THEN MethodNotAllowed(c, "logout", method)
    ELSE
    /\ session' = [session EXCEPT ![c] = Anonymous]
    /\ last' = redirect(c, "logout", method, "get_all_posts", "")
    /\ UNCHANGED <<users, blog_posts, comments>>

\* @app.route("/post/<int:post_id>", methods=["GET", "POST"])
\* requested_post is looked up but never tested: the comment is stored under the
\* post_id of the URL (SQLite does not enforce the foreign key).
show_post(c, method, post_id, form, today) ==
    IF validate_on_submit(method, form) THEN
        IF is_authenticated(c) THEN
            LET new_comment == [id |-> NextId(comments), text |-> form.comment,
                                author_id |-> session[c],
                                post_id |-> post_id, date |-> strftime(today)]
            IN  /\ new_comment.id <= MaxCommentId
                /\ comments' = comments \cup {new_comment}
                /\ last' = redirect(c, "show_post", method, "get_all_posts", "")
                /\ UNCHANGED <<users, blog_posts, session>>
        ELSE
            /\ last' = redirect(c, "show_post", method, "login",
                                "login or register to comment")
            /\ UNCHANGED <<users, blog_posts, comments, session>>
    ELSE
        /\ last' = render_template(c, "show_post", method, "post.html", "")
        /\ UNCHANGED <<users, blog_posts, comments, session>>

\* @app.route("/about")
about(c, method) ==
    IF method # "GET" THEN MethodNotAllowed(c, "about", method)
    ELSE
    /\ last' = render_template(c, "about", method, "about.html", "")
    /\ UNCHANGED <<users, blog_posts, comments, session>>

\* @app.route("/contact")
contact(c, method) ==
    IF method # "GET" THEN MethodNotAllowed(c, "contact", method)
    ELSE
    /\ last' = render_template(c, "contact", method, "contact.html", "")
    /\ UNCHANGED <<users, blog_posts, comments, session>>

\* @app.route("/new-post", methods=["GET", "POST"]) @admin_only
add_new_post(c, method, form, today) ==
    IF admin_only(c) = "AttributeError" THEN
        /\ last' = ServerError(c, "add_new_post", method, "AttributeError")
        /\ UNCHANGED <<users, blog_posts, comments, session>>
    ELSE IF admin_only(c) = "abort403" THEN
        /\ last' = abort(c, "add_new_post", method, 403)
        /\ UNCHANGED <<users, blog_posts, comments, session>>
    ELSE IF validate_on_submit(method, form) THEN
        LET new_post == [id |-> NextId(blog_posts), title |-> form.title,
                         subtitle |-> form.subtitle, body |-> form.body,
                         img_url |-> form.img_url, date |-> strftime(today),
                         author_id |-> session[c]]
        IN  IF post_insert_ok(new_post) THEN
                   /\ new_post.id <= MaxPostId
                   /\ blog_posts' = blog_posts \cup {new_post}
                   /\ last' = redirect(c, "add_new_post", method, "get_all_posts", "")
                   /\ UNCHANGED <<users, comments, session>>
               ELSE
                   /\ last' = ServerError(c, "add_new_post", method, "IntegrityError")
                   /\ UNCHANGED <<users, blog_posts, comments, session>>
    ELSE
        /\ last' = render_template(c, "add_new_post", method, "make-post.html", "")
        /\ UNCHANGED <<users, blog_posts, comments, session>>

\* @app.route("/edit-post/<int:post_id>") @admin_only
\* The route lists no methods, so it answers GET only; a POST is refused with 405
\* and validate_on_submit() is never true inside the view.
edit_post(c, method, post_id, form) ==
    IF method # "GET" THEN MethodNotAllowed(c, "edit_post", method)
    ELSE IF admin_only(c) = "AttributeError" THEN
        /\ last' = ServerError(c, "edit_post", method, "AttributeError")
        /\ UNCHANGED <<users, blog_posts, comments, session>>
    ELSE IF admin_only(c) = "abort403" THEN
        /\ last' = abort(c, "edit_post", method, 403)
        /\ UNCHANGED <<users, blog_posts, comments, session>>
    ELSE IF get_post(post_id) = {} THEN
        \* post is None: post.title raises
        /\ last' = ServerError(c, "edit_post", method, "AttributeError")
        /\ UNCHANGED <<users, blog_posts, comments, session>>
    ELSE IF validate_on_submit(method, form) THEN
        LET post == CHOOSE p \in get_post(post_id) : TRUE
            edited == [post EXCEPT !.title = form.title, !.subtitle = form.subtitle,
                                   !.img_url = form.img_url, !.body = form.body]
        IN  IF post_update_ok(edited) THEN
                /\ blog_posts' = (blog_posts \ {post}) \cup {edited}
                /\ last' = redirect(c, "edit_post", method, "show_post", "")
                /\ UNCHANGED <<users, comments, session>>
            ELSE
                /\ last' = ServerError(c, "edit_post", method, "IntegrityError")
                /\ UNCHANGED <<users, blog_posts, comments, session>>
    ELSE
        /\ last' = render_template(c, "edit_post", method, "make-post.html", "")
        /\ UNCHANGED <<users, blog_posts, comments, session>>

\* @app.route("/delete/<int:post_id>") @admin_only
delete_post(c, method, post_id) ==
    IF method # "GET" THEN MethodNotAllowed(c, "delete_post", method)
    ELSE IF admin_only(c) = "AttributeError" THEN
        /\ last' = ServerError(c, "delete_post", method, "AttributeError")
        /\ UNCHANGED <<users, blog_posts, comments, session>>
    ELSE IF admin_only(c) = "abort403" THEN
        /\ last' = abort(c, "delete_post", method, 403)
        /\ UNCHANGED <<users, blog_posts, comments, session>>
    ELSE IF get_post(post_id) = {} THEN
        \* db.session.delete(None)
        /\ last' = ServerError(c, "delete_post", method, "UnmappedInstanceError")
        /\ UNCHANGED <<users, blog_posts, comments, session>>
    ELSE
        /\ delete_row(CHOOSE p \in get_post(post_id) : TRUE)
        /\ last' = redirect(c, "delete_post", method, "get_all_posts", "")
        /\ UNCHANGED <<users, session>>

\* The form a request carries: the route's form fields on POST, nothing on GET.
FormsOf(method, forms) == IF method = "POST" THEN forms ELSE {EmptyForm}

Next ==
    \/ \E c \in Clients, m \in Methods : get_all_posts(c, m)
    \/ \E c \in Clients, m \in Methods : \E f \in FormsOf(m, RegisterForms), s \in Salts :
            register(c, m, f, s)
    \/ \E c \in Clients, m \in Methods : \E f \in FormsOf(m, LoginForms) : login(c, m, f)
    \/ \E c \in Clients, m \in Methods : logout(c, m)
    \/ \E c \in Clients, m \in Methods, id \in UrlPostIds :
            \E f \in FormsOf(m, CommentForms), d \in Days : show_post(c, m, id, f, d)
    \/ \E c \in Clients, m \in Methods : about(c, m)
    \/ \E c \in Clients, m \in Methods : contact(c, m)
    \/ \E c \in Clients, m \in Methods : \E f \in FormsOf(m, CreatePostForms), d \in Days :
            add_new_post(c, m, f, d)
    \/ \E c \in Clients, m \in Methods, id \in UrlPostIds :
            \E f \in FormsOf(m, CreatePostForms) : edit_post(c, m, id, f)
    \/ \E c \in Clients, m \in Methods, id \in UrlPostIds : delete_post(c, m, id)

Spec == Init /\ [][Next]_vars

\* ------------------------------------------------------------------ properties
\* The view functions behind /new-post, /edit-post/{id} and /delete/{id}.
PrivilegedRoutes == {"add_new_post", "edit_post", "delete_post"}

\* The forms a privileged request may carry.
PostRequestForms == CreatePostForms \cup {EmptyForm}

\* A request of client c to one of the three privileged routes, with a method
\* the route is registered for.
PrivilegedStep(c) ==
    \/ \E m \in Methods, f \in PostRequestForms, d \in Days : add_new_post(c, m, f, d)
    \/ \E id \in UrlPostIds, f \in PostRequestForms : edit_post(c, "GET", id, f)
    \/ \E id \in UrlPostIds : delete_post(c, "GET", id)

\* A request of client c to one of the three privileged routes, any method.
AnyPrivilegedStep(c) ==
    \/ PrivilegedStep(c)
    \/ \E id \in UrlPostIds, f \in PostRequestForms : edit_post(c, "POST", id, f)
    \/ \E id \in UrlPostIds : delete_post(c, "POST", id)

\* C1: a request to /new-post, /edit-post/{id} or /delete/{id} by a client that is
\* not logged in as user 1 (anonymous or another user) leaves the posts as they
\* were: list_posts() is the same before and after.
C1_NonAdminLeavesPosts ==
    [][\A c \in Clients :
          (/\ session[c] # ADMIN_ID
           /\ last'.route \in PrivilegedRoutes
           /\ AnyPrivilegedStep(c)) => blog_posts' = blog_posts]_vars

\* C1 witness: a logged-in user other than user 1 was refused on a privileged
\* route while posts exist.
C1_Witness ==
    /\ last.route \in PrivilegedRoutes
    /\ last.status = 403
    /\ session[last.client] \notin {ADMIN_ID, Anonymous}
    /\ blog_posts # {}

\* C2: every request to a privileged route by an identity other than user 1,
\* the anonymous one included, ends in 403 (stated for the methods each route
\* is registered for).
C2_NonAdminGets403 ==
    [][\A c \in Clients :
          (/\ session[c] # ADMIN_ID
           /\ last'.route \in PrivilegedRoutes
           /\ PrivilegedStep(c)) => last'.status = 403]_vars

\* C3: no two users share an email; a register submission with the email of an
\* existing user creates no user, leaves the session alone and redirects to
\* login with the duplicate-email message.
C3_EmailUnique ==
    [][/\ \A u1, u2 \in users' : u1.email = u2.email => u1 = u2
       /\ \A c \in Clients, f \in RegisterForms, s \in Salts :
            (/\ last'.route = "register"
             /\ \E u \in users : u.email = f.email
             /\ register(c, "POST", f, s)) =>
                /\ users' = users
                /\ session' = session
                /\ last' = redirect(c, "register", "POST", "login", "email already exists")]_vars

\* C3 witness: a second registration with a taken email was turned away.
C3_Witness ==
    /\ last.route = "register"
    /\ last.view = "login"
    /\ last.flash = "email already exists"
    /\ \E u \in users : u.id = ADMIN_ID

\* A comment row is new in the next state.
NewComments == {n \in comments' : n.id \notin CommentIds}

\* C4 as stated: every comment submission by an anonymous client leaves the
\* comments alone and is redirected to login with the not-authenticated message.
C4_AnonymousAlwaysRedirected ==
    [][\A c \in Clients, id \in UrlPostIds, f \in CommentForms, d \in Days :
          (session[c] = Anonymous /\ last'.route = "show_post"
                                    /\ show_post(c, "POST", id, f, d)) =>
              /\ comments' = comments
              /\ last' = redirect(c, "show_post", "POST", "login", "login or register to comment")]_vars

\* C4 amended: a comment submission by an anonymous client never creates a
\* comment and leaves the comments unchanged; when the submitted form is valid
\* the client is redirected to login with the not-authenticated message; every
\* comment is created by a request of a logged-in client, under that user's id.
C4_AnonymousNeverComments ==
    [][/\ \A c \in Clients, id \in UrlPostIds, f \in CommentForms, d \in Days :
            (session[c] = Anonymous /\ last'.route = "show_post"
                                    /\ show_post(c, "POST", id, f, d)) =>
                /\ comments' = comments
                /\ validate(f) =>
                     last' = redirect(c, "show_post", "POST", "login", "login or register to comment")
       /\ \A n \in NewComments :
            /\ session[last'.client] # Anonymous
            /\ n.author_id = session[last'.client]]_vars

\* C4 witness: an anonymous client submitted a valid comment and was sent to login.
C4_Witness ==
    /\ last.route = "show_post"
    /\ last.method = "POST"
    /\ last.view = "login"
    /\ last.flash = "login or register to comment"
    /\ session[last.client] = Anonymous
    /\ blog_posts # {}

\* C5: a comment, when it is created, refers to an existing user and to an
\* existing post, whatever post id the URL gave.
C5_CommentRefersToExisting ==
    [][\A n \in NewComments : n.author_id \in UserIds /\ n.post_id \in PostIds]_vars

\* The user a login form authenticates: the row with the form's email whose
\* stored hash is the hash of the form's password under the stored salt.
Authenticates(f) ==
    {u \in users : /\ u.email = f.email
                   /\ u.password = generate_password_hash(f.password, u.password.salt)}

\* C6: every client starts anonymous; a successful register or login sets the
\* client's session to that user's id, logout sets it to anonymous, and every
\* other request (failed login, duplicate register, content routes) leaves
\* every session unchanged.
C6_SessionTransitions ==
    /\ \A c \in Clients : session[c] = Anonymous
    /\ [][\A c \in Clients :
            /\ \A f \in RegisterForms, s \in Salts :
                 (last'.route = "register" /\ register(c, "POST", f, s)) =>
                 IF \E u \in users : u.email = f.email
                 THEN session' = session
                 ELSE \E u \in users' \ users :
                        u.email = f.email /\ session' = [session EXCEPT ![c] = u.id]
            /\ \A f \in LoginForms : (last'.route = "login" /\ login(c, "POST", f)) =>
                 IF Authenticates(f) = {}
                 THEN session' = session
                 ELSE \E u \in Authenticates(f) : session' = [session EXCEPT ![c] = u.id]
            /\ (last'.route = "logout" /\ logout(c, "GET")) =>
                 session' = [session EXCEPT ![c] = Anonymous]
            /\ session'[c] # session[c] =>
                 /\ last'.client = c
                 /\ \/ last'.route = "logout" /\ session'[c] = Anonymous
                    \/ /\ last'.route \in {"register", "login"}
                       /\ last' = redirect(c, last'.route, "POST", "get_all_posts", "")
                       /\ session'[c] \in {u.id : u \in users'}]_vars

\* C6 witness: a logged-in client failed a login and is still logged in.
C6_Witness ==
    /\ last.route = "login"
    /\ last.method = "POST"
    /\ last.flash = "invalid password"
    /\ session[last.client] # Anonymous

\* C7: a submission to /edit-post/{id} with valid fields by user 1 on an
\* existing post overwrites the post's fields with the submitted ones and keeps
\* its id and creation date.
C7_EditOverwrites ==
    [][\A c \in Clients, id \in UrlPostIds, f \in CreatePostForms :
          (/\ session[c] = ADMIN_ID
           /\ validate(f)
           /\ get_post(id) # {}
           /\ \A p \in blog_posts : p.title = f.title => p.id = id
           /\ edit_post(c, "POST", id, f)) =>
              \E p \in blog_posts' :
                  /\ p.id = id
                  /\ p.title = f.title /\ p.subtitle = f.subtitle
                  /\ p.img_url = f.img_url /\ p.body = f.body
                  /\ \E q \in get_post(id) : p.date = q.date]_vars

\* C8: a submission whose fields fail validation changes no user, post or
\* comment and no session, on every route that mutates from form input; on the
\* routes registered for POST the form is rendered again.
C8_InvalidFormNoMutation ==
    [][\A c \in Clients :
        /\ \A f \in RegisterForms, s \in Salts :
              (~validate(f) /\ register(c, "POST", f, s)) =>
                  /\ UNCHANGED <<users, blog_posts, comments, session>>
                  /\ last'.status = 200
        /\ \A f \in LoginForms :
              (~validate(f) /\ login(c, "POST", f)) =>
                  /\ UNCHANGED <<users, blog_posts, comments, session>>
                  /\ last'.status = 200
        /\ \A f \in CommentForms, id \in UrlPostIds, d \in Days :
              (~validate(f) /\ show_post(c, "POST", id, f, d)) =>
                  /\ UNCHANGED <<users, blog_posts, comments, session>>
                  /\ last'.status = 200
        /\ \A f \in CreatePostForms, d \in Days :
              (~validate(f) /\ add_new_post(c, "POST", f, d)) =>
                  /\ UNCHANGED <<users, blog_posts, comments, session>>
                  /\ session[c] = ADMIN_ID => last'.status = 200
        /\ \A f \in CreatePostForms, id \in UrlPostIds :
              (~validate(f) /\ edit_post(c, "POST", id, f)) =>
                  UNCHANGED <<users, blog_posts, comments, session>>]_vars

\* C9: no two posts share a title; a valid create_post by user 1 with the title
\* of an existing post fails with IntegrityError and adds no post, and one with
\* a title no post has adds exactly that post.
C9_TitleUnique ==
    [][/\ \A p1, p2 \in blog_posts' : p1.title = p2.title => p1 = p2
       /\ \A c \in Clients, f \in CreatePostForms, d \in Days :
            (/\ session[c] = ADMIN_ID
             /\ last'.route = "add_new_post"
             /\ validate(f)
             /\ add_new_post(c, "POST", f, d)) =>
                IF \E p \in blog_posts : p.title = f.title
                THEN /\ blog_posts' = blog_posts
                     /\ last' = ServerError(c, "add_new_post", "POST", "IntegrityError")
                ELSE \E p \in blog_posts' :
                        /\ p.title = f.title
                        /\ p.id \notin PostIds
                        /\ blog_posts' = blog_posts \cup {p}]_vars

\* C9 witness: a second post with a taken title was refused by the database.
C9_Witness ==
    /\ last.route = "add_new_post"
    /\ last.flash = "IntegrityError"
    /\ blog_posts # {}

\* C10: after user 1 deletes an existing post no post row has that id, and
\* every comment row that existed is still there.
C10_DeleteRemovesPostKeepsComments ==
    [][\A c \in Clients, id \in UrlPostIds :
          (/\ session[c] = ADMIN_ID
           /\ last'.route = "delete_post"
           /\ id \in PostIds
           /\ delete_post(c, "GET", id)) =>
              /\ \A p \in blog_posts' : p.id # id
              /\ {x.id : x \in comments'} = CommentIds
              /\ Cardinality(comments') = Cardinality(comments)]_vars

\* C10 witness: a post was deleted and a comment that referred to it remains.
C10_Witness ==
    /\ last.route = "delete_post"
    /\ last.status = 302
    /\ \E x \in comments : x.post_id = NULL
====
